---- MODULE Spec2Model ----
(***************************************************************************)
(* A model of the headless autorun host `hash` (src/src/runner.rs and      *)
(* src/src/main.rs), in its Linux build: Script::from_file / name /        *)
(* parent, Runner::start                                                   *)
(* (single file, directory sweep, watch loop with its debounce),           *)
(* Runner::eval_dir, Runner::eval_script, Runner::run and                  *)
(* Runner::transform, together with the part of the environment they talk  *)
(* to: the directory listing, the script file, the child processes, the    *)
(* mount watcher's callback and the clock.                                 *)
(*                                                                         *)
(* Paths, file contents and process output are byte strings.  A byte       *)
(* string is a sequence of numbers 0..255; a file's contents is a record   *)
(* [bytes, pad] standing for `bytes` followed by `pad` line feeds, so that *)
(* a file larger than MAX_SCRIPT_SIZE can be written down.                 *)
(***************************************************************************)
EXTENDS Integers, Sequences, FiniteSets, TLC

(***************************************************************************)
(* Bounds of the model.                                                    *)
(***************************************************************************)
MaxEntries == 2      \* entries a directory listing holds at most
MaxEvents == 2       \* matching mount events the watcher's callback sends at most
MaxSecond == 1       \* the latest reading of the wall clock, in seconds
TicksPerSec == 2     \* ticks of the monotonic clock in one second

MaxMounted == MaxEntries - 1    \* entries of a listing read in the watch loop, at most
\* The capacity of a pipe and the largest input of a filter, in bytes: scaled
\* down from the 64 KiB of a pipe and the 640 KiB of the size limit, the input
\* being allowed to exceed what the two pipes hold together.
PipeCap == 2
MaxInput == 6

MaxTime == 2 * TicksPerSec      \* the latest reading of the monotonic clock, in ticks

(***************************************************************************)
(* Program constants.                                                      *)
(***************************************************************************)
SCRIPT_SUFFIX == <<46, 104, 97, 46, 115, 104>>        \* ".ha.sh"
MAX_SCRIPT_SIZE == 655360

None == <<>>
Some(x) == <<x>>

(***************************************************************************)
(* Byte strings.                                                           *)
(***************************************************************************)
StartsWith(s, p) == Len(s) >= Len(p) /\ SubSeq(s, 1, Len(p)) = p

EndsWith(s, p) == Len(s) >= Len(p) /\ SubSeq(s, Len(s) - Len(p) + 1, Len(s)) = p

RECURSIVE Replace(_, _)
\* str::replace(pat, ""): every non-overlapping occurrence, left to right.
Replace(s, pat) ==
    IF s = <<>> THEN <<>>
    ELSE IF StartsWith(s, pat) THEN Replace(SubSeq(s, Len(pat) + 1, Len(s)), pat)
    ELSE <<Head(s)>> \o Replace(Tail(s), pat)

Cont(s, i, lo, hi) == i <= Len(s) /\ s[i] >= lo /\ s[i] <= hi

RECURSIVE Utf8From(_, _)
\* str::from_utf8 succeeds: the well-formed byte sequences of UTF-8.
Utf8From(s, i) ==
    IF i > Len(s) THEN TRUE
    ELSE LET b == s[i] IN
      IF b <= 127 THEN Utf8From(s, i + 1)
      ELSE IF b >= 194 /\ b <= 223
        THEN Cont(s, i + 1, 128, 191) /\ Utf8From(s, i + 2)
      ELSE IF b = 224
        THEN Cont(s, i + 1, 160, 191) /\ Cont(s, i + 2, 128, 191) /\ Utf8From(s, i + 3)
      ELSE IF b = 237
        THEN Cont(s, i + 1, 128, 159) /\ Cont(s, i + 2, 128, 191) /\ Utf8From(s, i + 3)
      ELSE IF b >= 225 /\ b <= 239
        THEN Cont(s, i + 1, 128, 191) /\ Cont(s, i + 2, 128, 191) /\ Utf8From(s, i + 3)
      ELSE IF b = 240
        THEN /\ Cont(s, i + 1, 144, 191) /\ Cont(s, i + 2, 128, 191)
             /\ Cont(s, i + 3, 128, 191) /\ Utf8From(s, i + 4)
      ELSE IF b >= 241 /\ b <= 243
        THEN /\ Cont(s, i + 1, 128, 191) /\ Cont(s, i + 2, 128, 191)
             /\ Cont(s, i + 3, 128, 191) /\ Utf8From(s, i + 4)
      ELSE IF b = 244
        THEN /\ Cont(s, i + 1, 128, 143) /\ Cont(s, i + 2, 128, 191)
             /\ Cont(s, i + 3, 128, 191) /\ Utf8From(s, i + 4)
      ELSE FALSE

Utf8(s) == Utf8From(s, 1)

\* OsStr::to_str / Path::to_str: Some(the string) when it is valid UTF-8.
to_str(s) == IF Utf8(s) THEN Some(s) ELSE None

(***************************************************************************)
(* File contents: `bytes` followed by `pad` line feeds (byte 10).          *)
(***************************************************************************)
Data(bytes, pad) == [bytes |-> bytes, pad |-> pad]

Size(d) == Len(d.bytes) + d.pad

Empty == Data(<<>>, 0)

\* A variant of from_utf8 that takes any bytes for text.
from_utf8_unchecked(d) == Some(d)

\* str::from_utf8 on a buffer: line feeds are ASCII.
from_utf8(d) == IF Utf8(d.bytes) THEN Some(d) ELSE None

(***************************************************************************)
(* Paths: a directory and a last component.                                *)
(***************************************************************************)
Path(dir, name) == [dir |-> dir, name |-> name]

PathBytes(p) == p.dir \o <<47>> \o p.name

DirMnt == <<47, 109>>                                  \* "/m"
DirAlt == <<47, 116>>                                  \* "/t"

\* What the file system holds at a path: the name of the entry, what the path
\* is once symbolic links are followed, and the canonical path.
Ent(name, type, canon) == [path |-> Path(DirMnt, name), type |-> type, canon |-> canon]

Plain(name, type) == Ent(name, type, Path(DirMnt, name))

NameA == <<97>> \o SCRIPT_SUFFIX                          \* "a.ha.sh"
NameHidden == <<46, 104>> \o SCRIPT_SUFFIX                \* ".h.ha.sh"
NameSub == <<115, 117, 98>>                               \* "sub"
NameTxt == <<98, 46, 116, 120, 116>>                      \* "b.txt"
NameDirSfx == <<100>> \o SCRIPT_SUFFIX                    \* "d.ha.sh"
NameRaw == <<46, 255>>                                    \* "." and the byte 0xFF
NameLink == <<108>> \o SCRIPT_SUFFIX                      \* "l.ha.sh"
NameTwice == <<97>> \o SCRIPT_SUFFIX \o SCRIPT_SUFFIX     \* "a.ha.sh.ha.sh"
NameGone == <<103>> \o SCRIPT_SUFFIX                      \* "g.ha.sh"
NameAbsent == <<110, 46, 116, 120, 116>>                  \* "n.txt"

\* The entries a listing of the directory may hold.
Catalogue ==
    { Plain(NameA, "file"), Plain(NameHidden, "file"), Plain(NameSub, "dir"),
      Plain(NameDirSfx, "dir"), Plain(NameRaw, "file"), Plain(NameTwice, "file") }

\* More files: one without the suffix, and a symbolic link with the suffix to
\* a file without it.
Others == { Plain(NameTxt, "file"), Ent(NameLink, "file", Path(DirAlt, <<114>>)) }

\* The directory itself, and a path at which there is nothing.
TheDir == [path |-> Path(<<>>, <<109>>), type |-> "dir", canon |-> Path(<<>>, <<109>>)]
Gone == Ent(NameGone, "none", Path(DirMnt, NameGone))
Absent == Ent(NameAbsent, "none", Path(DirMnt, NameAbsent))

\* The paths the program may be started on.
Targets == {e \in Catalogue \cup Others : e.type = "file"} \cup {TheDir, Gone, Absent}

\* Contents a script file may have.
Contents ==
    { Data(<<195, 169>>, 0), Data(<<195>>, 0),
      Data(<<101>>, MAX_SCRIPT_SIZE - 1), Data(<<101>>, MAX_SCRIPT_SIZE) }

\* What a script may write to its standard output or standard error.
Outputs == { Empty, Data(<<111>>, 0) }

\* What a filter (decoder, encoder) may write for an input: the input, or a byte
\* that is no text.
Filtered(d) == { d, Data(<<255>>, 0) }

\* The listings read_dir may return: up to max entries.  Their order is not
\* specified: it is chosen as the loop of eval_dir goes.
Listings(max) == { l \in SUBSET Catalogue : Cardinality(l) <= max }


(***************************************************************************)
(* Errors (enum Error) and results.                                        *)
(***************************************************************************)
IO == [kind |-> "IO"]
TransformFailed == [kind |-> "TransformFailed"]
ScriptNotFound(p) == [kind |-> "ScriptNotFound", path |-> p]
UnsupportedScript(p) == [kind |-> "UnsupportedScript", path |-> p]

Ok(v) == [ok |-> TRUE, val |-> v]
Err(e) == [ok |-> FALSE, err |-> e]
Unit == "()"

\* impl fmt::Display for Error: the text written to error.log.
Display(e) ==
    CASE e.kind = "IO" -> <<"IO: ">>
      [] e.kind = "TransformFailed" -> <<"Transform failed">>
      [] e.kind = "ScriptNotFound" -> <<"Script not found: ", e.path>>
      [] e.kind = "UnsupportedScript" -> <<"Unsupported script: ", e.path>>

(***************************************************************************)
(* Script.                                                                 *)
(***************************************************************************)
\* unwrap_or_default of an Option<bool>: None is false.
UnwrapOrFalse(o) == IF o = None THEN FALSE ELSE o[1]

\* path.to_str().map(|p| !p.ends_with(SCRIPT_SUFFIX)).unwrap_or_default()
WrongSuffix(p) ==
    LET s == to_str(PathBytes(p))
    IN  UnwrapOrFalse(IF s = None THEN None ELSE Some(~EndsWith(s[1], SCRIPT_SUFFIX)))

\* Script::from_file on what the file system holds at the path; canonOk is
\* whether canonicalize succeeds.
from_file(e, canonOk) ==
    IF WrongSuffix(e.path) THEN Err(UnsupportedScript(e.path))
    ELSE IF e.type # "file" THEN Err(ScriptNotFound(e.path))
    ELSE IF ~canonOk THEN Err(IO)
    ELSE Ok([path |-> e.canon])

\* Script::parent
parent(s) == Ok(s.path.dir)

\* Script::name
name(s) ==
    LET f == to_str(s.path.name)
    IN  IF f = None THEN <<>> ELSE Replace(f[1], SCRIPT_SUFFIX)

\* The run directory: "{name}-run-{UTC second}" pushed on the script's parent.
RunDir(s, sec) == [dir |-> parent(s).val, base |-> name(s), sec |-> sec]

(***************************************************************************)
(* The debounce of Runner::start and the filter of Runner::eval_dir.       *)
(***************************************************************************)
\* Instant::duration_since saturates at zero.
duration_since(ts, earlier) == IF ts >= earlier THEN ts - earlier ELSE 0

as_secs(d) == d \div TicksPerSec

\* A variant of Triggers without the debounce: every timestamp triggers a sweep.
TriggersEvery(last, ts) == TRUE

\* The match on last_ts: does the timestamp trigger a sweep?
Triggers(last, ts) ==
    IF last = None THEN TRUE
    ELSE as_secs(duration_since(ts, last[1])) > 1

\* The filter_map of eval_dir: an entry is dropped when its file name is
\* valid UTF-8 and starts with ".".
Hidden(e) ==
    LET f == to_str(e.path.name)
    IN  f # None /\ StartsWith(f[1], <<46>>)

Kept(l) == { e \in l : ~Hidden(e) }


(***************************************************************************)
(* State.                                                                  *)
(***************************************************************************)
VARIABLES
    cfg,        \* the command line: target path, watch flag, decoder, encoder
    pc,         \* where the main thread is
    result,     \* what start (and so main) returned, None while it runs
    now,        \* the latest reading of the monotonic clock (Instant), in ticks
    utc,        \* the latest reading of the wall clock (Utc), in seconds
    tx,         \* the watcher's callback still holds the sender
    rx,         \* the timestamps in the channel
    last_ts,    \* the debounce reference of the watch loop
    nev,        \* timestamps the callback has sent
    seen,       \* history: the timestamps the loop received, and whether each swept
    wait,       \* the wait argument of eval_dir / eval_script / run
    files,      \* eval_dir: the entries still to evaluate
    path,       \* eval_script: what the file system holds at its path argument
    script,     \* eval_script: the Script
    run_dir,    \* eval_script: the run directory, once created
    dirs,       \* the run directories created in the second utc
    rfiles,     \* the files in run_dir, by name
    file,       \* the contents of the script file, once the attempt has looked at it
    buf,        \* run: the decoded bytes
    script_text,\* run: the decoded text
    stdout,     \* run: the captured standard output of the script
    stderr,     \* run: the captured standard error of the script
    site,       \* transform: the call it serves ("decode", "stdout", "stderr")
    err,        \* what run returned: None for Ok(()), Some(e) for Err(e)
    child,      \* transform: the filter process ("running", "ok", "failed"), or "none"
    spawns,     \* history: the processes spawned in this attempt
    detached,   \* history: the children spawned that nobody waits for, by kind
    pipes       \* transform: the bytes in the pipes of the filter, where they are followed

watchVars == <<tx, rx, last_ts, nev, seen>>
dirVars == <<wait, files>>
runVars == <<file, buf, script_text, stdout, stderr, site, err, child>>
vars == <<cfg, pc, result, now, utc, tx, rx, last_ts, nev, seen, wait, files, path, script,
          run_dir, dirs, rfiles, file, buf, script_text, stdout, stderr, site, err,
          child, spawns, detached, pipes>>

\* The pipes of a filter fed n bytes: todo, the bytes of the reader that io::copy
\* has still to write; stdin and stdout, the bytes in the two pipes; open, the
\* parent holds the write end of stdin; hold, the bytes the filter has read and
\* not yet written; sink, the bytes that reached the writer.
Piped(n) == [todo |-> n, stdin |-> 0, open |-> TRUE, hold |-> 0, stdout |-> 0, sink |-> 0]

Commands == {None, Some("cmd")}

\* The command lines: --watch is looked at for a path that is no file, and the
\* encoder is used by a run that waits.
CommandLines ==
    { c \in [target : Targets, watch : BOOLEAN, decoder : Commands, encoder : Commands] :
        c.watch => c.target.type # "file" /\ c.encoder = None }

Init ==
    /\ cfg \in CommandLines
    /\ pc = "start"
    /\ result = None
    /\ now = 0
    /\ utc = 0
    /\ tx = FALSE
    /\ rx = <<>>
    /\ last_ts = None
    /\ nev = 0
    /\ seen = <<>>
    /\ wait = TRUE
    /\ files = {}
    /\ path = None
    /\ script = None
    /\ run_dir = None
    /\ dirs = {}
    /\ rfiles = <<>>
    /\ file = None
    /\ buf = Empty
    /\ script_text = None
    /\ stdout = Empty
    /\ stderr = Empty
    /\ site = "none"
    /\ err = None
    /\ child = "none"
    /\ spawns = <<>>
    /\ detached = [filter |-> 0, shell |-> 0]
    /\ pipes = Piped(0)

Watching == cfg.target.type # "file" /\ cfg.watch

(***************************************************************************)
(* The environment: the clocks and the mount watcher.                      *)
(***************************************************************************)
\* A clock reading: time has passed since the last one.
Instants == now..MaxTime
Seconds == utc..MaxSecond

\* path.to_str().unwrap_or_default()
mount_point == LET s == to_str(PathBytes(cfg.target.path)) IN IF s = None THEN <<>> ELSE s[1]

MountPoints == {PathBytes(cfg.target.path), DirAlt}

\* The callback given to MountWatcher::new, on one mount event.
MountEvent ==
    /\ tx
    /\ nev < MaxEvents
    /\ \E mounted \in SUBSET MountPoints :
          IF \E m \in mounted : m = mount_point
            THEN \E t \in Instants : now' = t /\ rx' = Append(rx, t) /\ nev' = nev + 1
            ELSE UNCHANGED <<now, rx, nev>>
    /\ UNCHANGED <<cfg, pipes, pc, result, utc, tx, last_ts, seen, dirVars, path, script, run_dir,
                   dirs, rfiles, runVars, spawns, detached>>

\* The watcher stops and drops its callback, and with it the sender.
WatcherStop ==
    /\ tx
    /\ tx' = FALSE
    /\ UNCHANGED <<cfg, pipes, pc, result, now, utc, rx, last_ts, nev, seen, dirVars, path, script,
                   run_dir, dirs, rfiles, runVars, spawns, detached>>

(***************************************************************************)
(* Runner::start.                                                          *)
(***************************************************************************)
Start ==
    /\ pc = "start"
    /\ IF cfg.target.type = "file"
         THEN /\ pc' = "from_file"
              /\ path' = Some(cfg.target)
              /\ wait' = TRUE
              /\ tx' = tx
         ELSE IF ~cfg.watch
         THEN /\ pc' = "eval_dir"
              /\ wait' = TRUE
              /\ UNCHANGED <<path, tx>>
         ELSE /\ pc' = "recv"
              /\ tx' = TRUE
              /\ UNCHANGED <<path, wait>>
    /\ UNCHANGED <<cfg, pipes, result, now, utc, rx, last_ts, nev, seen, files, script, run_dir, dirs,
                   rfiles, runVars, spawns, detached>>

\* A variant of Reference where every timestamp received becomes the reference.
ReferenceLatest(last, ts) == Some(ts)

\* The value of `match last_ts { .. }` assigned to last_ts; on `_ => continue`
\* nothing is assigned.
Reference(last, ts) == IF Triggers(last, ts) THEN Some(ts) ELSE last

\* A variant of WatchWait where the sweeps of the watch loop wait for each script.
WatchWaits == TRUE

\* The wait argument of `self.eval_dir(path, false)` in the watch loop.
WatchWait == FALSE

\* One iteration of `for ts in rx`.
Recv ==
    /\ pc = "recv"
    /\ rx # <<>>
    /\ LET ts == Head(rx) IN
         /\ rx' = Tail(rx)
         /\ seen' = Append(seen, [ts |-> ts, sweep |-> Triggers(last_ts, ts)])
         /\ last_ts' = Reference(last_ts, ts)
         /\ IF Triggers(last_ts, ts)
              THEN /\ wait' = WatchWait
                   /\ pc' = "eval_dir"
              ELSE UNCHANGED <<wait, pc>>
    /\ UNCHANGED <<cfg, pipes, result, now, utc, tx, nev, files, path, script, run_dir, dirs, rfiles,
                   runVars, spawns, detached>>

\* The channel is empty and the sender is gone: the loop ends, start returns Ok(()).
RecvClosed ==
    /\ pc = "recv"
    /\ rx = <<>>
    /\ ~tx
    /\ pc' = "done"
    /\ result' = Some(Ok(Unit))
    /\ UNCHANGED <<cfg, pipes, now, utc, watchVars, dirVars, path, script, run_dir, dirs, rfiles,
                   runVars, spawns, detached>>

(***************************************************************************)
(* Runner::eval_dir.                                                       *)
(***************************************************************************)
\* The state of one execution attempt, before it starts: the locals of eval_script and run.
FreshAttempt ==
    /\ script' = None
    /\ run_dir' = None
    /\ rfiles' = <<>>
    /\ file' = None
    /\ buf' = Empty
    /\ script_text' = None
    /\ stdout' = Empty
    /\ stderr' = Empty
    /\ site' = "none"
    /\ err' = None
    /\ spawns' = <<>>

\* eval_dir returns r to start: `?` in a plain sweep, `.ok()` in the watch loop.
EvalDirReturns(r) ==
    IF Watching
      THEN pc' = "recv" /\ result' = result
      ELSE pc' = "done" /\ result' = Some(r)

\* fs::read_dir and the filter.
EvalDir ==
    /\ pc = "eval_dir"
    /\ \/ /\ cfg.target.type = "dir"
          /\ \E l \in Listings(IF Watching THEN MaxMounted ELSE MaxEntries) :
                files' = Kept(l)
          /\ pc' = "next_file"
          /\ result' = result
       \/ /\ files' = files
          /\ EvalDirReturns(Err(IO))
    /\ UNCHANGED <<cfg, pipes, now, utc, watchVars, wait, path, script, run_dir, dirs, rfiles, runVars,
                   spawns, detached>>

\* `for file in files`: the next call of eval_script, or the end of the sweep
\* (where the locals of the last call are gone).
NextFile ==
    /\ pc = "next_file"
    /\ IF files = {}
         THEN /\ EvalDirReturns(Ok(Unit))
              /\ files' = files
              /\ IF Watching
                   THEN FreshAttempt /\ path' = None
                   ELSE UNCHANGED <<path, script, run_dir, rfiles, file, buf, script_text,
                                    stdout, stderr, site, err, spawns>>
         ELSE /\ FreshAttempt
              /\ \E f \in files : path' = Some(f) /\ files' = files \ {f}
              /\ pc' = "from_file"
              /\ result' = result
    /\ UNCHANGED <<cfg, pipes, now, utc, watchVars, wait, dirs, child, detached>>

(***************************************************************************)
(* Runner::eval_script.                                                    *)
(***************************************************************************)
\* A variant of EvalScriptReturns where the loop of eval_dir gives up on the
\* first error (as `self.eval_script(&file, wait)?` would).
EvalScriptAborts(r) ==
    IF cfg.target.type = "file" \/ ~r.ok
      THEN pc' = "done" /\ result' = Some(r)
      ELSE pc' = "next_file" /\ result' = result

\* eval_script returns r: to start for a single file, to the loop of eval_dir
\* otherwise (which prints an error and goes on).
EvalScriptReturns(r) ==
    IF cfg.target.type = "file"
      THEN pc' = "done" /\ result' = Some(r)
      ELSE pc' = "next_file" /\ result' = result

\* Script::from_file(path)?
FromFile ==
    /\ pc = "from_file"
    /\ \E canonOk \in BOOLEAN :
         LET r == from_file(path[1], canonOk) IN
           IF r.ok
             THEN /\ script' = Some(r.val)
                  /\ pc' = "create_dir"
                  /\ result' = result
             ELSE /\ script' = script
                  /\ EvalScriptReturns(r)
    /\ UNCHANGED <<cfg, pipes, now, utc, watchVars, dirVars, path, run_dir, dirs, rfiles, runVars,
                   spawns, detached>>

\* script.parent()?, the name of the run directory, fs::create_dir(&run_dir)?
CreateDir ==
    /\ pc = "create_dir"
    /\ \E t \in Seconds :
         LET d == RunDir(script[1], t) IN
           /\ utc' = t
           /\ \/ /\ d \notin dirs
                 /\ dirs' = {x \in dirs : x.sec = t} \cup {d}
                 /\ run_dir' = Some(d)
                 /\ pc' = "metadata"
                 /\ result' = result
              \/ /\ UNCHANGED <<dirs, run_dir>>
                 /\ EvalScriptReturns(Err(IO))
    /\ UNCHANGED <<cfg, pipes, now, watchVars, dirVars, path, script, rfiles, runVars, spawns,
                   detached>>

\* A variant of Diagnostic that writes error.log after every run.
DiagnosticAlways(e) == Some(IF e = None THEN <<>> ELSE Display(e[1]))

\* `if let Err(err) = self.run(..)`: the text eval_script writes to error.log
\* for what run returned, None when it writes nothing.
Diagnostic(e) == IF e = None THEN None ELSE Some(Display(e[1]))

\* run returned: on an error error.log is written, and a failure to write it is
\* dropped; eval_script returns Ok(()).
RunReturns ==
    /\ pc = "run_ret"
    /\ \/ /\ Diagnostic(err) # None
          /\ rfiles' = ("error.log" :> Diagnostic(err)[1]) @@ rfiles
       \/ rfiles' = rfiles
    /\ EvalScriptReturns(Ok(Unit))
    /\ script' = None
    /\ file' = None
    /\ stdout' = Empty
    /\ stderr' = Empty
    /\ spawns' = <<>>
    /\ UNCHANGED <<cfg, pipes, now, utc, watchVars, dirVars, path, run_dir, dirs, buf, script_text,
                   site, err, child, detached>>

(***************************************************************************)
(* Runner::run and Runner::transform.                                      *)
(***************************************************************************)
\* run returns e (None for Ok(()), Some(error) for Err(error)) to eval_script,
\* and its locals are gone (what the script wrote is kept until the attempt ends).
Returns(e) ==
    /\ pc' = "run_ret"
    /\ err' = e
    /\ buf' = Empty
    /\ script_text' = None
    /\ site' = "none"

\* run goes on at the statement l.
Goes(l) == pc' = l /\ err' = err

Transformer(st) == IF st = "decode" THEN cfg.decoder ELSE cfg.encoder

\* The reader: the script file, or the captured output.
Source(st) ==
    CASE st = "decode" -> file[1]
      [] st = "stdout" -> stdout
      [] st = "stderr" -> stderr

LogName(st) == IF st = "stdout" THEN "stdout.log" ELSE "stderr.log"

\* The first step of transform(reader, writer, transformer).
Enter(transformer) == IF transformer = None THEN "t_copy" ELSE "t_spawn"

\* A variant of io_copy that loses the last byte read.
io_copy_short(d) ==
    IF d.pad > 0 THEN Data(d.bytes, d.pad - 1)
    ELSE Data(SubSeq(d.bytes, 1, Len(d.bytes) - 1), 0)

\* io::copy: the bytes read are the bytes written.
io_copy(d) == d

\* A variant of success that takes every exit status for a success.
success_any(status) == TRUE

\* ExitStatus::success
success(status) == status = "ok"

\* transform returns r, having written w to the writer (None: nothing; the
\* writer is the buffer of run or a log file), and `?` or the next statement of
\* run follows (File::flush does nothing and cannot fail).  The Child is
\* dropped: a filter that has not exited lives on, and nobody waits for it.
TransformReturns(r, w) ==
    /\ child' = "none"
    /\ detached' = IF child = "running" THEN [detached EXCEPT !.filter = @ + 1] ELSE detached
    /\ rfiles' = IF site # "decode" /\ w # None
                   THEN [rfiles EXCEPT ![LogName(site)] = w[1]] ELSE rfiles
    /\ UNCHANGED <<file, stdout, stderr>>
    /\ IF ~r.ok THEN Returns(Some(r.err))
       ELSE IF site = "decode"
         THEN /\ Goes("utf8")
              /\ buf' = IF w # None THEN w[1] ELSE buf
              /\ UNCHANGED <<script_text, site>>
       ELSE IF site = "stdout"
         THEN /\ Goes("stderr_log")
              /\ UNCHANGED <<buf, script_text, site>>
       ELSE Returns(None)

\* No transformer: io::copy(&mut reader, &mut writer)
TCopy ==
    /\ pc = "t_copy"
    /\ \/ TransformReturns(Ok(Unit), Some(io_copy(Source(site))))
       \/ TransformReturns(Err(IO), None)
    /\ UNCHANGED <<cfg, pipes, result, now, utc, watchVars, dirVars, path, script, run_dir, dirs,
                   spawns>>

\* Command::new("sh").args(["-c", transform]) ... .spawn()
TSpawn ==
    /\ pc = "t_spawn"
    /\ \/ /\ child' = "running"
          /\ spawns' = Append(spawns, [what |-> site, text |-> Transformer(site)[1]])
          /\ Goes("t_stdin")
          /\ UNCHANGED <<detached, rfiles, file, buf, script_text, stdout, stderr, site>>
       \/ /\ spawns' = spawns
          /\ TransformReturns(Err(IO), None)
    /\ UNCHANGED <<cfg, pipes, result, now, utc, watchVars, dirVars, path, script, run_dir, dirs>>

\* The filter process exits, with one status or the other.
FilterExits ==
    /\ child = "running"
    /\ child' \in {"ok", "failed"}
    /\ UNCHANGED <<cfg, pipes, pc, result, now, utc, watchVars, dirVars, path, script, run_dir, dirs,
                   rfiles, file, buf, script_text, stdout, stderr, site, err, spawns,
                   detached>>

\* io::copy(&mut reader, stdin)
TStdin ==
    /\ pc = "t_stdin"
    /\ \/ /\ Goes("t_wait")
          /\ UNCHANGED <<child, detached, rfiles, file, buf, script_text, stdout, stderr, site>>
       \/ TransformReturns(Err(IO), None)
    /\ UNCHANGED <<cfg, pipes, result, now, utc, watchVars, dirVars, path, script, run_dir, dirs,
                   spawns>>

\* cmd.wait() blocks until the filter has exited; then the branch on its status.
TWait ==
    /\ pc = "t_wait"
    /\ child \in {"ok", "failed"}
    /\ IF success(child)
         THEN /\ Goes("t_stdout")
              /\ UNCHANGED <<child, detached, rfiles, file, buf, script_text, stdout, stderr,
                             site>>
         ELSE TransformReturns(Err(TransformFailed), None)
    /\ UNCHANGED <<cfg, pipes, result, now, utc, watchVars, dirVars, path, script, run_dir, dirs,
                   spawns>>

\* io::copy(&mut stdout, &mut writer): whatever the filter wrote.
TStdout ==
    /\ pc = "t_stdout"
    /\ \/ \E out \in Filtered(Source(site)) : TransformReturns(Ok(Unit), Some(io_copy(out)))
       \/ TransformReturns(Err(IO), None)
    /\ UNCHANGED <<cfg, pipes, result, now, utc, watchVars, dirVars, path, script, run_dir, dirs,
                   spawns>>

\* A variant of TooLarge that rejects the size MAX_SCRIPT_SIZE too.
TooLargeFrom(script_len) == script_len >= MAX_SCRIPT_SIZE

\* script_len > MAX_SCRIPT_SIZE
TooLarge(script_len) == script_len > MAX_SCRIPT_SIZE

\* fs::metadata(&script.path)?.len() and the size check.
Metadata ==
    /\ pc = "metadata"
    /\ \/ \E c \in Contents :
            /\ file' = Some(c)
            /\ IF TooLarge(Size(c))
                 THEN Returns(Some(UnsupportedScript(script[1].path)))
                 ELSE Goes("open") /\ UNCHANGED <<buf, script_text, site>>
       \/ Returns(Some(IO)) /\ file' = file
    /\ UNCHANGED <<cfg, pipes, result, now, utc, watchVars, dirVars, path, script, run_dir, dirs,
                   rfiles, stdout, stderr, child, spawns, detached>>

\* File::open(&script.path)? and the call of transform with the decoder.
Open ==
    /\ pc = "open"
    /\ \/ /\ Goes(Enter(cfg.decoder))
          /\ site' = "decode"
          /\ UNCHANGED <<buf, script_text>>
       \/ Returns(Some(IO))
    /\ UNCHANGED <<cfg, pipes, result, now, utc, watchVars, dirVars, path, script, run_dir, dirs,
                   rfiles, file, stdout, stderr, child, spawns, detached>>

\* str::from_utf8(&buf) ... ?
CheckUtf8 ==
    /\ pc = "utf8"
    /\ IF from_utf8(buf) = None
         THEN Returns(Some(UnsupportedScript(script[1].path)))
         ELSE /\ Goes("exec")
              /\ script_text' = from_utf8(buf)
              /\ UNCHANGED <<buf, site>>
    /\ UNCHANGED <<cfg, pipes, result, now, utc, watchVars, dirVars, path, script, run_dir, dirs,
                   rfiles, file, stdout, stderr, child, spawns, detached>>

\* .current_dir(script.parent()?)
current_dir(s) == parent(s).val

\* The command that runs the script: sh -c script_text, its directory, its environment.
ShellCommand ==
    [what |-> "script", text |-> script_text[1], cwd |-> current_dir(script[1]),
     HASH_SCRIPT |-> name(script[1]), HASH_RUN_DIR |-> run_dir[1]]

\* Command::new("sh") ... .output() or .spawn(): the process is started, or not.
Exec ==
    /\ pc = "exec"
    /\ \/ /\ spawns' = Append(spawns, ShellCommand)
          /\ IF wait
               THEN /\ Goes("exec_wait")
                    /\ UNCHANGED <<detached, buf, script_text, site>>
               ELSE /\ Returns(None)
                    /\ detached' = [detached EXCEPT !.shell = @ + 1]
       \/ /\ Returns(Some(IO))
          /\ UNCHANGED <<spawns, detached>>
    /\ UNCHANGED <<cfg, pipes, result, now, utc, watchVars, dirVars, path, script, run_dir, dirs,
                   rfiles, file, stdout, stderr, child>>

\* .output() returns: the script has exited and its output is collected.
ExecWait ==
    /\ pc = "exec_wait"
    /\ \/ /\ Goes("stdout_log")
          /\ stdout' \in Outputs
          /\ stderr' \in Outputs
          /\ UNCHANGED <<buf, script_text, site>>
       \/ Returns(Some(IO)) /\ UNCHANGED <<stdout, stderr>>
    /\ UNCHANGED <<cfg, pipes, result, now, utc, watchVars, dirVars, path, script, run_dir, dirs,
                   rfiles, file, child, spawns, detached>>

\* A variant of is_empty that takes every captured stream for non-empty.
is_empty_never(d) == FALSE

\* Vec::is_empty
is_empty(d) == Size(d) = 0

\* One of the two blocks `if !out.is_empty() { File::create(..)?; transform(..)?; .. }`;
\* after the second one run returns Ok(()).
LogBlock(here, out, st, next) ==
    /\ pc = here
    /\ IF is_empty(out)
         THEN IF next = "run_ret"
                THEN Returns(None) /\ rfiles' = rfiles
                ELSE /\ Goes(next)
                     /\ UNCHANGED <<rfiles, buf, script_text, site>>
         ELSE \/ /\ Goes(Enter(cfg.encoder))
                 /\ rfiles' = (LogName(st) :> Empty) @@ rfiles
                 /\ site' = st
                 /\ UNCHANGED <<buf, script_text>>
              \/ Returns(Some(IO)) /\ rfiles' = rfiles
    /\ UNCHANGED <<cfg, pipes, result, now, utc, watchVars, dirVars, path, script, run_dir, dirs,
                   file, stdout, stderr, child, spawns, detached>>

StdoutLog == LogBlock("stdout_log", stdout, "stdout", "stderr_log")

StderrLog == LogBlock("stderr_log", stderr, "stderr", "run_ret")

(***************************************************************************)
(* The program.                                                            *)
(***************************************************************************)
Next ==
    \/ MountEvent
    \/ WatcherStop
    \/ FilterExits
    \/ Start
    \/ Recv
    \/ RecvClosed
    \/ EvalDir
    \/ NextFile
    \/ FromFile
    \/ CreateDir
    \/ Metadata
    \/ Open
    \/ TCopy
    \/ TSpawn
    \/ TStdin
    \/ TWait
    \/ TStdout
    \/ CheckUtf8
    \/ Exec
    \/ ExecWait
    \/ StdoutLog
    \/ StderrLog
    \/ RunReturns

Spec == Init /\ [][Next]_vars

(***************************************************************************)
(* Properties.                                                             *)
(***************************************************************************)
\* The shells spawned in this attempt to run the script text.
ShellSpawns == { i \in DOMAIN spawns : spawns[i].what = "script" }

\* The path of a run directory: parent "/" name "-run-" second.
RunDirBytes(d) == d.dir \o <<47>> \o d.base \o <<45, 114, 117, 110, 45>> \o <<48 + d.sec>>

\* eval_script has returned, and the state of its attempt is still there.
Returned == pc \in {"done", "next_file"}

\* C1 -- Debounce, close events: when the first two timestamps the watch loop
\* receives are less than one second apart, the first triggers a sweep and the
\* second triggers none.
C1_CloseEventsOneSweep ==
    (Len(seen) >= 2 /\ seen[2].ts - seen[1].ts < TicksPerSec)
        => (seen[1].sweep /\ ~seen[2].sweep)

\* Two timestamps half a second apart were received: one sweep.
C1_Witness ==
    /\ Len(seen) >= 2
    /\ seen[2].ts - seen[1].ts = 1
    /\ seen[1].sweep
    /\ ~seen[2].sweep

\* C2 -- Debounce, separated events, as the claim states it: when the first two
\* timestamps the watch loop receives are more than one second apart, each of
\* them triggers a sweep.
C2_SeparatedEventsTwoSweeps ==
    (Len(seen) >= 2 /\ seen[2].ts - seen[1].ts > TicksPerSec)
        => (seen[1].sweep /\ seen[2].sweep)

\* C3 -- Sweep exclusion, as the claim states it: what eval_dir passes to
\* eval_script is no entry whose name starts with "." and no subdirectory, and a
\* run directory is created only for a regular file whose name does not start
\* with "." and ends in ".ha.sh".
C3_SweepExclusion ==
    (cfg.target.type # "file" /\ path # None)
        => /\ ~StartsWith(path[1].path.name, <<46>>)
           /\ path[1].type # "dir"
           /\ run_dir # None => /\ path[1].type = "file"
                                /\ EndsWith(path[1].path.name, SCRIPT_SUFFIX)

\* C4 -- Size ceiling: once the size check has seen a script file of more than
\* MAX_SCRIPT_SIZE bytes, run has returned UnsupportedScript and the attempt has
\* spawned no process (the run directory exists); and the size check lets a
\* file of exactly MAX_SCRIPT_SIZE bytes pass, on to File::open.
C4_SizeCeiling ==
    /\ []((file # None /\ Size(file[1]) > MAX_SCRIPT_SIZE)
            => /\ pc = "run_ret"
               /\ err = Some(UnsupportedScript(script[1].path))
               /\ spawns = <<>>
               /\ run_dir # None)
    /\ [][(pc = "metadata" /\ file' # None /\ Size(file'[1]) = MAX_SCRIPT_SIZE)
            => (pc' = "open" /\ err' = None)]_vars

\* An oversize script was rejected, in its run directory.
C4_Witness ==
    /\ pc = "run_ret"
    /\ file # None /\ Size(file[1]) = MAX_SCRIPT_SIZE + 1
    /\ err = Some(UnsupportedScript(script[1].path))
    /\ run_dir # None

\* C5 -- Transform failure law: when the configured command of a transform has
\* exited with a non-zero status, the step that follows its wait makes
\* transform (and so run) return TransformFailed, and writes nothing to the
\* sink: neither to a log file nor, in the decode step, to the buffer of run.
C5_TransformFailure ==
    [][(pc = "t_wait" /\ child = "failed" /\ pc' # pc)
        => /\ pc' = "run_ret"
           /\ err' = Some(TransformFailed)
           /\ rfiles' = rfiles
           /\ site = "decode" => buf' = buf]_vars

\* An encoder failed: stdout.log was created and is left empty.
C5_Witness ==
    /\ pc = "run_ret"
    /\ err = Some(TransformFailed)
    /\ Len(spawns) = 2
    /\ spawns[2].what = "stdout"
    /\ rfiles = ("stdout.log" :> Empty)

\* C6 -- Execution guard: in one run the shell is spawned at most once, after
\* every decoder spawn, with a text that is valid UTF-8 and is what the decode
\* step produced; a run that returns TransformFailed from the decode step, or
\* UnsupportedScript, has spawned no shell.
C6_ExecutionGuard ==
    /\ Cardinality(ShellSpawns) <= 1
    /\ \A i \in ShellSpawns :
          /\ Utf8(spawns[i].text.bytes)
          /\ \A j \in DOMAIN spawns : spawns[j].what = "decode" => j < i
          /\ cfg.decoder # None => i > 1 /\ spawns[i - 1].what = "decode"
    /\ (pc = "run_ret" /\ err = Some(TransformFailed)
          /\ spawns[Len(spawns)].what = "decode") => ShellSpawns = {}
    /\ (pc = "run_ret" /\ err # None /\ err[1].kind = "UnsupportedScript")
          => ShellSpawns = {}

\* The decoder produced bytes that are no text: the run ended, without a shell.
C6_Witness ==
    /\ pc = "run_ret"
    /\ err = Some(UnsupportedScript(script[1].path))
    /\ Len(spawns) = 1
    /\ spawns[1].what = "decode"
    /\ Size(file[1]) <= MAX_SCRIPT_SIZE

C8_FailurePropagates ==
    (cfg.target.type = "file" /\ pc = "done" /\ result[1].ok)
        => (run_dir # None /\ err = None)

\* C9 -- Working directory, as the claim states it: the shell that runs the
\* script text is started in the run directory, the one exported as HASH_RUN_DIR.
C9_WorkingDirectory ==
    \A i \in ShellSpawns : spawns[i].cwd = RunDirBytes(spawns[i].HASH_RUN_DIR)

\* C10 -- Decode passthrough law: with no decoder configured, the text handed
\* to sh -c is the contents of the script file, byte for byte.
C10_DecodePassthrough ==
    cfg.decoder = None =>
        \A i \in ShellSpawns : file # None /\ spawns[i].text = file[1]

\* A script of two bytes (one character) was handed to the shell as it is.
C10_Witness ==
    /\ cfg.decoder = None
    /\ file = Some(Data(<<195, 169>>, 0))
    /\ \E i \in ShellSpawns : spawns[i].text = Data(<<195, 169>>, 0)

\* What .output() captured of a stream.
Captured(st) == IF st = "stdout" THEN stdout ELSE stderr

Streams == {"stdout", "stderr"}

\* C11 -- Output artifacts, as the claim states it: when run has returned in
\* wait mode after the shell of the script was started, each of stdout.log and
\* stderr.log is in the run directory if and only if its captured stream is
\* not empty; otherwise (no-wait mode) neither is there.
C11_OutputArtifacts ==
    pc = "run_ret" =>
        IF wait /\ ShellSpawns # {}
          THEN \A st \in Streams : (LogName(st) \in DOMAIN rfiles) <=> (Captured(st) # Empty)
          ELSE \A st \in Streams : LogName(st) \notin DOMAIN rfiles

\* C11, amended -- while an attempt lasts, a log file is in the run directory
\* only in wait mode and only if its captured stream is not empty; and when run
\* has returned Ok in wait mode, each log file is there if and only if its
\* stream is not empty, and holds what the encoder wrote for that stream (the
\* stream itself without an encoder).
C11_OutputArtifactsOnSuccess ==
    script # None =>
        \A st \in Streams :
          /\ LogName(st) \in DOMAIN rfiles => (wait /\ Captured(st) # Empty)
          /\ (pc = "run_ret" /\ err = None /\ wait /\ Captured(st) # Empty)
                => /\ LogName(st) \in DOMAIN rfiles
                   /\ rfiles[LogName(st)] \in
                        (IF cfg.encoder = None THEN {Captured(st)} ELSE Filtered(Captured(st)))

\* The script wrote to its standard output only, and run returned Ok: stdout.log
\* holds the output, and there is no stderr.log.
C11_Witness ==
    /\ pc = "run_ret"
    /\ err = None
    /\ wait
    /\ cfg.encoder = None
    /\ stdout = Data(<<111>>, 0)
    /\ stderr = Empty
    /\ rfiles = ("stdout.log" :> Data(<<111>>, 0))

\* start went to eval_dir: the path is no regular file.
InSweep == cfg.target.type # "file"

\* The main thread is in eval_script (or in run or transform under it).
InAttempt == pc \notin {"start", "eval_dir", "next_file", "recv", "done"}

\* C12 -- Best-effort sweep: once the listing is read, the loop of eval_dir
\* passes one of the remaining entries to eval_script at a time and takes it
\* off the remaining ones; whatever an attempt does, and however it fails, it
\* leaves the remaining entries alone and gives control back to the loop; an
\* entry that was passed is not passed again; and the loop ends only when no
\* entry remains, eval_dir returning Ok.
C12_BestEffortSweep ==
    /\ [][(pc = "next_file" /\ files # {} /\ pc' # pc)
            => \E f \in files :
                 /\ path' = Some(f)
                 /\ files' = files \ {f}
                 /\ pc' = "from_file"]_vars
    /\ [][(InSweep /\ InAttempt)
            => /\ files' = files
               /\ result' = result
               /\ pc' = "next_file" \/ InAttempt']_vars
    /\ [][(pc = "next_file" /\ files = {} /\ pc' # pc)
            => IF Watching THEN pc' = "recv"
               ELSE pc' = "done" /\ result' = Some(Ok(Unit))]_vars
    /\ []((InSweep /\ path # None) => path[1] \notin files)
    /\ []((InSweep /\ pc = "done" /\ result = Some(Ok(Unit))) => files = {})

\* The run directory of an entry could not be created, and entries remain.
C12_Witness ==
    /\ InSweep
    /\ pc = "next_file"
    /\ files # {}
    /\ script # None
    /\ run_dir = None

(***************************************************************************)
(* The watch session, with fairness: the main thread takes its next step   *)
(* when it has one, and a filter process exits.  The return of .output()   *)
(* is not among these steps: it waits for the script, which may never      *)
(* exit.  A script spawned without waiting takes no step of the model.     *)
(***************************************************************************)
InitWatch == Init /\ Watching

NextWatch ==
    \/ MountEvent
    \/ WatcherStop
    \/ FilterExits
    \/ Start
    \/ Recv
    \/ RecvClosed
    \/ EvalDir
    \/ NextFile
    \/ FromFile
    \/ CreateDir
    \/ Metadata
    \/ Open
    \/ TCopy
    \/ TSpawn
    \/ TStdin
    \/ TWait
    \/ TStdout
    \/ CheckUtf8
    \/ Exec
    \/ RunReturns

Progress ==
    \/ FilterExits
    \/ Start
    \/ Recv
    \/ RecvClosed
    \/ EvalDir
    \/ NextFile
    \/ FromFile
    \/ CreateDir
    \/ Metadata
    \/ Open
    \/ TCopy
    \/ TSpawn
    \/ TStdin
    \/ TWait
    \/ TStdout
    \/ CheckUtf8
    \/ Exec
    \/ RunReturns

WatchSpec == InitWatch /\ [][NextWatch]_vars /\ WF_vars(Progress)

C14_NonScriptRejected ==
    (cfg.target.type \in {"file", "none"} /\ ~EndsWith(cfg.target.path.name, SCRIPT_SUFFIX))
        => /\ run_dir = None
           /\ pc = "done" => result = Some(Err(UnsupportedScript(cfg.target.path)))

\* C15 -- Run-directory name collisions, as the claim states it: in one plain
\* sweep every entry is a file of its own, so the run directory computed for
\* the script at hand, at whatever second the clock may show, is none of the
\* run directories the sweep has created for the entries before it.
C15_DistinctRunDirs ==
    (InSweep /\ ~cfg.watch /\ pc = "create_dir")
        => \A t \in Seconds : RunDir(script[1], t) \notin dirs

\* C16 -- Script invariant, as the claim states it: the path a Script holds is
\* the canonical path of what was given, ends in ".ha.sh", and was a regular
\* file when Script::from_file looked.
C16_ScriptInvariant ==
    script # None
        => /\ script[1].path = path[1].canon
           /\ path[1].type = "file"
           /\ EndsWith(PathBytes(script[1].path), SCRIPT_SUFFIX)

\* The timestamps received so far that triggered a sweep, by their place in seen.
Swept == { i \in DOMAIN seen : seen[i].sweep }

\* C17 -- Debounce reference frame: the reference last_ts is None until a sweep
\* is triggered, and then it is the timestamp that triggered the latest sweep:
\* a timestamp that is suppressed does not move it; and a sweep begins only at a
\* timestamp received, every timestamp in the channel being one the callback
\* sent for an event that includes the watched mount point.
C17_ReferenceFrame ==
    /\ last_ts = IF Swept = {} THEN None
                 ELSE Some(seen[CHOOSE i \in Swept : \A j \in Swept : j <= i].ts)
    /\ Len(seen) + Len(rx) = nev
    /\ (Watching /\ (pc = "eval_dir" \/ pc = "next_file" \/ InAttempt))
          => (seen # <<>> /\ seen[Len(seen)].sweep)

\* A timestamp one second after the first was suppressed: the reference is
\* still the first.
C17_Witness ==
    /\ Len(seen) = 2
    /\ seen[2].ts = seen[1].ts + TicksPerSec
    /\ ~seen[2].sweep
    /\ last_ts = Some(seen[1].ts)

\* The children of the runner that can be alive: the filter of the transform
\* under way, the shell that .output() waits for, and the children that were
\* dropped while running (nothing makes them exit).
CanBeAlive ==
    (IF child = "running" THEN 1 ELSE 0) + (IF pc = "exec_wait" THEN 1 ELSE 0)
        + detached.filter + detached.shell

\* C18 -- Sequential wait mode: when a single file or a directory is evaluated
\* without watching, at most one child started by the runner (decoder, script
\* shell or encoder) is alive at any time.
C18_OneChildAlive == ~cfg.watch => CanBeAlive <= 1

\* C20 -- Failed-run artifacts: after an execution attempt, a run directory
\* that contains error.log contains neither stdout.log nor stderr.log.
C20_OnlyTheDiagnostic ==
    (Returned /\ "error.log" \in DOMAIN rfiles)
        => \A st \in Streams : LogName(st) \notin DOMAIN rfiles

\* ---------------------------------------------------------------------------
\* transform with a filter, byte by byte through the pipes.  The filter is an
\* identity filter such as cat: it reads what is in its standard input, writes
\* what it read to its standard output, and exits with status 0 at end of file;
\* it writes nothing to its standard error.  A pipe holds PipeCap bytes: a write
\* to a full pipe blocks, and so does a read from an empty pipe whose write end
\* is open.

Min(a, b) == IF a < b THEN a ELSE b

\* The state after .spawn() returned the Child, with a reader of n bytes.
InitPipe ==
    /\ cfg = CHOOSE c \in CommandLines :
                c.target.type = "file" /\ c.decoder # None /\ c.encoder = None
    /\ pc = "t_stdin"
    /\ result = None
    /\ now = 0
    /\ utc = 0
    /\ tx = FALSE
    /\ rx = <<>>
    /\ last_ts = None
    /\ nev = 0
    /\ seen = <<>>
    /\ wait = TRUE
    /\ files = {}
    /\ path = None
    /\ script = None
    /\ run_dir = None
    /\ dirs = {}
    /\ rfiles = <<>>
    /\ file = None
    /\ buf = Empty
    /\ script_text = None
    /\ stdout = Empty
    /\ stderr = Empty
    /\ site = "decode"
    /\ err = None
    /\ child = "running"
    /\ spawns = <<>>
    /\ detached = [filter |-> 0, shell |-> 0]
    /\ \E n \in 0..MaxInput : pipes = Piped(n)

pipeFrame ==
    <<cfg, result, now, utc, watchVars, dirVars, path, script, run_dir, dirs, rfiles, file,
      buf, script_text, stdout, stderr, site, err, spawns, detached>>

\* io::copy(&mut reader, stdin): one write of the loop, of as many bytes as the
\* pipe takes; with the pipe full the write blocks.
CopyIn ==
    /\ pc = "t_stdin"
    /\ pipes.todo > 0
    /\ pipes.stdin < PipeCap
    /\ \E k \in 1..Min(pipes.todo, PipeCap - pipes.stdin) :
          pipes' = [pipes EXCEPT !.todo = @ - k, !.stdin = @ + k]
    /\ UNCHANGED <<pc, child, pipeFrame>>

\* io::copy returns at the end of the reader; cmd.wait() then closes the stdin
\* of the child and waits.
CopyInDone ==
    /\ pc = "t_stdin"
    /\ pipes.todo = 0
    /\ pc' = "t_wait"
    /\ pipes' = [pipes EXCEPT !.open = FALSE]
    /\ UNCHANGED <<child, pipeFrame>>

\* The filter reads from its standard input.
FilterReads ==
    /\ child = "running"
    /\ pipes.hold = 0
    /\ pipes.stdin > 0
    /\ \E k \in 1..pipes.stdin :
          pipes' = [pipes EXCEPT !.stdin = @ - k, !.hold = k]
    /\ UNCHANGED <<pc, child, pipeFrame>>

\* The filter writes what it read to its standard output; with the pipe full
\* the write blocks.
FilterWrites ==
    /\ child = "running"
    /\ pipes.hold > 0
    /\ pipes.stdout < PipeCap
    /\ \E k \in 1..Min(pipes.hold, PipeCap - pipes.stdout) :
          pipes' = [pipes EXCEPT !.hold = @ - k, !.stdout = @ + k]
    /\ UNCHANGED <<pc, child, pipeFrame>>

\* The filter reads end of file, and exits with status 0.
FilterEof ==
    /\ child = "running"
    /\ pipes.hold = 0
    /\ pipes.stdin = 0
    /\ ~pipes.open
    /\ child' = "ok"
    /\ UNCHANGED <<pc, pipes, pipeFrame>>

\* cmd.wait() returns when the filter has exited.
WaitReturns ==
    /\ pc = "t_wait"
    /\ child # "running"
    /\ pc' = IF success(child) THEN "t_stdout" ELSE "t_ret"
    /\ UNCHANGED <<child, pipes, pipeFrame>>

\* io::copy(&mut stdout, &mut writer): the parent reads the standard output of
\* the filter to the end, and transform returns.
CopyOut ==
    /\ pc = "t_stdout"
    /\ pc' = "t_ret"
    /\ pipes' = [pipes EXCEPT !.stdout = 0, !.sink = @ + pipes.stdout]
    /\ UNCHANGED <<child, pipeFrame>>

NextPipe ==
    \/ CopyIn
    \/ CopyInDone
    \/ FilterReads
    \/ FilterWrites
    \/ FilterEof
    \/ WaitReturns
    \/ CopyOut

PipeSpec == InitPipe /\ [][NextPipe]_vars

\* The parent is in a call that cannot return as things are.
ParentBlocked ==
    \/ pc = "t_stdin" /\ pipes.todo > 0 /\ pipes.stdin = PipeCap
    \/ pc = "t_wait" /\ child = "running"

\* The filter is in a call that cannot return as things are.
FilterBlocked ==
    /\ child = "running"
    /\ \/ pipes.hold > 0 /\ pipes.stdout = PipeCap
       \/ pipes.hold = 0 /\ pipes.stdin = 0 /\ pipes.open

\* C19 -- Transform termination: with an identity filter and an input of any
\* size up to the limit, the parent and the filter are never both blocked, each
\* on a pipe that only the other can fill or drain.
C19_NoPipeDeadlock == ~(ParentBlocked /\ FilterBlocked)

====
